---- MODULE Spec2Model ----
(***************************************************************************)
(* Model of src/snake.py: the game state kept by main() (snake, direction, *)
(* food, score, game_over, pending_dir), the event handlers of its input   *)
(* loop and the per-frame game update.                                     *)
(***************************************************************************)
EXTENDS Integers, Sequences, FiniteSets, TLC

\* ---- bounds of the model -------------------------------------------------
\* The grid is scaled down from the shipped 32 x 24 so that the snake can
\* fill it; the initial body needs GRID_W \div 2 >= 2.
GRID_W == 4
GRID_H == 2
\* Direction keys recorded per frame (between two game updates).
MaxKeys == 2
\* Grids on which a single call of reset_game is followed.
MaxCfgW == 6
MaxCfgH == 2
\* Grids and arguments on which a single call of random_free_cell is followed.
MaxCellW == 2
MaxCellH == 2

VARIABLES snake, direction, food, score, game_over, pending_dir,
          pc, keys, last, eaten, straight,
          cfg, rpc, occ, cell

vars == <<snake, direction, food, score, game_over, pending_dir,
          pc, keys, last, eaten, straight, cfg, rpc, occ, cell>>

\* State of one call of reset_game / random_free_cell followed step by step:
\* cfg is the grid <<GRID_W, GRID_H>> of the call, rpc its position, occ the
\* argument of random_free_cell and cell the cell sampled last.
callvars == <<cfg, rpc, occ, cell>>

\* The five values reset_game returns and main keeps.
game == <<snake, direction, food, score, game_over>>

\* straight counts the game updates run since the last direction key or
\* reset; it stops counting at StraightCap.
StraightCap == GRID_W + GRID_H

\* ---- values --------------------------------------------------------------
None == <<>>

DIR_UP == <<0, -1>>
DIR_DOWN == <<0, 1>>
DIR_LEFT == <<-1, 0>>
DIR_RIGHT == <<1, 0>>

\* The directions in the range of key_to_dir.
Dirs == {DIR_UP, DIR_DOWN, DIR_LEFT, DIR_RIGHT}

\* Vec.__add__
VecAdd(a, b) == <<a[1] + b[1], a[2] + b[2]>>

Range(s) == {s[i] : i \in 1..Len(s)}

\* The cells random.randrange(w), random.randrange(h) can produce.
GridOn(w, h) == (0..(w - 1)) \X (0..(h - 1))

\* The same on the grid of the game.
Grid == GridOn(GRID_W, GRID_H)

\* ---- pure functions ------------------------------------------------------
is_oppositeAxisX(a, b) == a[1] = -b[1] /\ a[2] = b[2]

is_opposite(a, b) == a[1] = -b[1] /\ a[2] = -b[2]

out_of_boundsUpperOnly(p) == p[1] >= GRID_W \/ p[2] >= GRID_H

out_of_boundsOffByOne(p) == p[1] < 0 \/ p[1] > GRID_W \/ p[2] < 0 \/ p[2] > GRID_H

out_of_bounds(p) == p[1] < 0 \/ p[1] >= GRID_W \/ p[2] < 0 \/ p[2] >= GRID_H

NoFreeCellOnStrict(occupied, w, h) == Cardinality(occupied) > w * h

\* random_free_cell raises RuntimeError instead of returning, on a w x h grid.
NoFreeCellOn(occupied, w, h) == Cardinality(occupied) >= w * h

\* The same on the grid of the game.
NoFreeCell(occupied) == NoFreeCellOn(occupied, GRID_W, GRID_H)

random_free_cellAnyCell(occupied) == Grid

\* The cells the rejection loop of random_free_cell can return.
random_free_cell(occupied) == {p \in Grid : p \notin occupied}

NewHeadTwoSteps(s, d) == VecAdd(VecAdd(s[1], d), d)

\* The value move_snake returns.
NewHead(s, d) == VecAdd(s[1], d)

move_snakeAtTail(s, d) == s \o <<NewHead(s, d)>>

\* The list after move_snake's insert(0, new_head).
move_snake(s, d) == <<NewHead(s, d)>> \o s

popNothing(s) == s

popHead(s) == Tail(s)

\* list.pop(): the list without its last element.
pop(s) == SubSeq(s, 1, Len(s) - 1)

SelfCollisionNever(s) == FALSE

\* new_head in snake[1:], evaluated on the list after move_snake.
SelfCollision(s) == s[1] \in Range(Tail(s))

AcceptKeyFirstWins(pd, cand, dir) ==
    IF ~is_opposite(cand, dir) /\ pd = None THEN cand ELSE pd

\* pending_dir after a direction key cand while heading dir.
AcceptKey(pd, cand, dir) == IF ~is_opposite(cand, dir) THEN cand ELSE pd

\* direction after the update consumed pending_dir.
ApplyPending(pd, dir) == IF pd # None THEN pd ELSE dir

ScoreAfterFoodDouble(sc) == sc + 2

\* score += 1
ScoreAfterFood(sc) == sc + 1

StartOnFromLastColumn(w, h) == <<(w - 1) \div 2, h \div 2>>

\* reset_game on a w x h grid: start and the three-cell body, head first.
StartOn(w, h) == <<w \div 2, h \div 2>>

ResetSnakeOn(w, h) ==
    <<StartOn(w, h), VecAdd(StartOn(w, h), DIR_LEFT),
      VecAdd(VecAdd(StartOn(w, h), DIR_LEFT), DIR_LEFT)>>

\* The same on the grid of the game.
start == StartOn(GRID_W, GRID_H)

reset_snakeTailFirst == <<VecAdd(VecAdd(start, DIR_LEFT), DIR_LEFT),
                          VecAdd(start, DIR_LEFT), start>>

reset_snake == ResetSnakeOn(GRID_W, GRID_H)

\* ---- initial state: main() up to the first frame -------------------------
Init ==
    /\ snake = reset_snake
    /\ direction = DIR_RIGHT
    /\ score = 0
    /\ game_over = FALSE
    /\ ~NoFreeCell(Range(reset_snake))
    /\ food \in random_free_cell(Range(reset_snake))
    /\ pending_dir = None
    /\ pc = "loop"
    /\ keys = <<>>
    /\ last = "init"
    /\ eaten = 0
    /\ straight = 0
    /\ cfg = <<GRID_W, GRID_H>>
    /\ rpc = "idle"
    /\ occ = {}
    /\ cell = None

\* ---- event handlers ------------------------------------------------------
\* QUIT event, or KEYDOWN of Esc / Q: main returns 0.
Quit ==
    /\ pc = "loop"
    /\ pc' = "exit"
    /\ last' = "quit"
    /\ UNCHANGED <<snake, direction, food, score, game_over, pending_dir,
                   keys, eaten, straight, callvars>>

\* KEYDOWN of R while game_over: reset_game() and pending_dir = None.
\* RuntimeError from random_free_cell is not caught here and ends main.
KeyReset ==
    /\ pc = "loop"
    /\ game_over
    /\ UNCHANGED callvars
    /\ IF NoFreeCell(Range(reset_snake))
       THEN /\ pc' = "error"
            /\ last' = "reset"
            /\ UNCHANGED <<snake, direction, food, score, game_over,
                           pending_dir, keys, eaten, straight>>
       ELSE /\ snake' = reset_snake
            /\ direction' = DIR_RIGHT
            /\ score' = 0
            /\ game_over' = FALSE
            /\ food' \in random_free_cell(Range(reset_snake))
            /\ pending_dir' = None
            /\ keys' = <<>>
            /\ eaten' = 0
            /\ straight' = 0
            /\ last' = "reset"
            /\ pc' = pc

\* KEYDOWN of an arrow key or W/A/S/D.
KeyDir ==
    /\ pc = "loop"
    /\ \E cand \in Dirs :
         IF ~game_over
         THEN /\ Len(keys) < MaxKeys
              /\ pending_dir' = AcceptKey(pending_dir, cand, direction)
              /\ keys' = Append(keys, cand)
              /\ straight' = 0
         ELSE UNCHANGED <<pending_dir, keys, straight>>
    /\ last' = "key"
    /\ UNCHANGED <<snake, direction, food, score, game_over, pc, eaten,
                   callvars>>

\* KEYDOWN of any other key (including R while the game runs), or an event
\* that is neither QUIT nor KEYDOWN.
KeyOther ==
    /\ pc = "loop"
    /\ last' = "other"
    /\ UNCHANGED <<snake, direction, food, score, game_over, pending_dir,
                   pc, keys, eaten, straight, callvars>>

\* ---- the game update of one frame ----------------------------------------
\* Frame with game_over set: the update is skipped.
Skip ==
    /\ last' = "skip"
    /\ keys' = <<>>
    /\ UNCHANGED <<snake, direction, food, score, game_over, pending_dir,
                   pc, eaten, straight, callvars>>

\* Frame with game_over clear.
Update ==
    LET d == ApplyPending(pending_dir, direction)
        s == move_snake(snake, d)
        new_head == NewHead(snake, d)
    IN  /\ direction' = d
        /\ pending_dir' = None
        /\ eaten' = IF new_head = food THEN eaten + 1 ELSE eaten
        /\ keys' = <<>>
        /\ straight' = IF straight < StraightCap THEN straight + 1 ELSE straight
        /\ pc' = pc
        /\ UNCHANGED callvars
        /\ IF out_of_bounds(new_head)
           THEN /\ game_over' = TRUE
                /\ snake' = s
                /\ last' = "wall"
                /\ UNCHANGED <<food, score>>
           ELSE IF SelfCollision(s)
           THEN /\ game_over' = TRUE
                /\ snake' = s
                /\ last' = "self"
                /\ UNCHANGED <<food, score>>
           ELSE IF new_head = food
           THEN /\ score' = ScoreAfterFood(score)
                /\ snake' = s
                /\ IF NoFreeCell(Range(s))
                   THEN /\ game_over' = TRUE
                        /\ food' = food
                        /\ last' = "win"
                   ELSE /\ food' \in random_free_cell(Range(s))
                        /\ game_over' = game_over
                        /\ last' = "eat"
           ELSE /\ snake' = pop(s)
                /\ last' = "move"
                /\ UNCHANGED <<food, score, game_over>>

TickAlways == pc = "loop" /\ Update

Tick ==
    /\ pc = "loop"
    /\ IF game_over THEN Skip ELSE Update

Next == Quit \/ KeyReset \/ KeyDir \/ KeyOther \/ Tick

Spec == Init /\ [][Next]_vars

\* ---- one call of reset_game, step by step --------------------------------
\* main() before its first reset_game(), on a grid drawn from the bounds.
InitReset ==
    /\ cfg \in (0..MaxCfgW) \X (0..MaxCfgH)
    /\ rpc = "reset"
    /\ occ = {}
    /\ cell = None
    /\ snake = <<>>
    /\ direction = None
    /\ food = None
    /\ score = 0
    /\ game_over = FALSE
    /\ pending_dir = None
    /\ pc = "start"
    /\ keys = <<>>
    /\ last = "init"
    /\ eaten = 0
    /\ straight = 0

\* reset_game up to its call of random_free_cell(set(snake)).
reset_game_enter ==
    /\ rpc = "reset"
    /\ snake' = ResetSnakeOn(cfg[1], cfg[2])
    /\ direction' = DIR_RIGHT
    /\ score' = 0
    /\ occ' = Range(ResetSnakeOn(cfg[1], cfg[2]))
    /\ rpc' = "call"
    /\ UNCHANGED <<food, game_over, pending_dir, pc, keys, last, eaten,
                   straight, cfg, cell>>

\* random_free_cell: the test that guards the loop.
random_free_cell_check ==
    /\ rpc = "call"
    /\ rpc' = IF NoFreeCellOn(occ, cfg[1], cfg[2]) THEN "raised" ELSE "loop"
    /\ UNCHANGED <<snake, direction, food, score, game_over, pending_dir,
                   pc, keys, last, eaten, straight, cfg, occ, cell>>

\* random_free_cell: one iteration of the rejection loop sampling cell c.
random_free_cell_sample(c) ==
    /\ rpc = "loop"
    /\ c \in GridOn(cfg[1], cfg[2])
    /\ cell' = c
    /\ rpc' = IF c \notin occ THEN "returned" ELSE "loop"
    /\ UNCHANGED <<snake, direction, food, score, game_over, pending_dir,
                   pc, keys, last, eaten, straight, cfg, occ>>

random_free_cell_loop ==
    \E c \in GridOn(cfg[1], cfg[2]) : random_free_cell_sample(c)

\* reset_game returns its five values to main, which clears pending_dir.
reset_game_return ==
    /\ rpc = "returned"
    /\ pc = "start"
    /\ food' = cell
    /\ game_over' = FALSE
    /\ pending_dir' = None
    /\ pc' = "loop"
    /\ rpc' = "idle"
    /\ last' = "reset"
    /\ UNCHANGED <<snake, direction, score, keys, eaten, straight, cfg,
                   occ, cell>>

\* The RuntimeError leaves reset_game, which has no handler, and main.
reset_game_raise ==
    /\ rpc = "raised"
    /\ pc = "start"
    /\ pc' = "error"
    /\ rpc' = "idle"
    /\ last' = "reset"
    /\ UNCHANGED <<snake, direction, food, score, game_over, pending_dir,
                   keys, eaten, straight, cfg, occ, cell>>

NextReset ==
    \/ reset_game_enter
    \/ random_free_cell_check
    \/ random_free_cell_loop
    \/ reset_game_return
    \/ reset_game_raise

SpecReset == InitReset /\ [][NextReset]_vars

\* ---- one call of random_free_cell(occupied), step by step ----------------
\* The cells an argument of random_free_cell is drawn from: the largest grid
\* and the column left of it.
CellUniverse == ((0 - 1)..(MaxCellW - 1)) \X (0..(MaxCellH - 1))

InitCell ==
    /\ cfg \in (0..MaxCellW) \X (0..MaxCellH)
    /\ occ \in SUBSET CellUniverse
    /\ rpc = "call"
    /\ cell = None
    /\ snake = <<>>
    /\ direction = None
    /\ food = None
    /\ score = 0
    /\ game_over = FALSE
    /\ pending_dir = None
    /\ pc = "cell"
    /\ keys = <<>>
    /\ last = "init"
    /\ eaten = 0
    /\ straight = 0

NextCell == random_free_cell_check \/ random_free_cell_loop

SpecCell == InitCell /\ [][NextCell]_vars

\* Fair sampling: the test is taken, and a loop that keeps running samples
\* every cell of its grid again and again.
FairSpecCell ==
    /\ SpecCell
    /\ WF_vars(random_free_cell_check)
    /\ \A c \in GridOn(MaxCellW, MaxCellH) :
          WF_vars(random_free_cell_sample(c))

\* ---- vocabulary of the properties ----------------------------------------
\* Values of last written by a frame whose game update ran.
TickLabels == {"wall", "self", "eat", "win", "move"}

\* The direction whose components are the negations of d's.
Opp(d) == <<0 - d[1], 0 - d[2]>>

AllButLast(s) == [i \in 1..(Len(s) - 1) |-> s[i]]

RECURSIVE LastAccepted(_, _)
\* The most recent key of ks that is not opposite to dir; dir if there is none.
LastAccepted(ks, dir) ==
    IF ks = <<>> THEN dir
    ELSE IF ks[Len(ks)] # Opp(dir) THEN ks[Len(ks)]
    ELSE LastAccepted(AllButLast(ks), dir)

\* ---- properties ----------------------------------------------------------
\* C1: once game_over is true, every frame and every key other than R leaves
\* snake, direction, food, score and game_over unchanged; only the reset
\* changes them.
C1_TerminalFrozen ==
    [][(game_over /\ last' # "reset") => UNCHANGED game]_vars

C1_Witness == game_over /\ last = "skip"

\* C2: while game_over is false the snake list has no duplicate positions.
C2_NoDuplicates ==
    ~game_over =>
        \A i, j \in 1..Len(snake) : i # j => snake[i] # snake[j]

C2_Witness == ~game_over /\ last = "move" /\ Len(snake) >= 5

\* C3 as stated: in every reachable state, running or terminal, food is not
\* equal to any position of the snake.
C3_FoodNeverOnBody == food \notin Range(snake)

\* C3 amended: food is on no position of the snake except after a
\* win-by-fill, where the snake covers the grid and food is its head.
C3_FoodOffBodyUnlessWin ==
    IF Range(snake) = Grid
    THEN game_over /\ food = snake[1]
    ELSE food \notin Range(snake)

C3_Witness == last = "win" /\ Range(snake) = Grid /\ food = snake[1]

C5_TailCellSafe ==
    [][(/\ last' \in TickLabels
        /\ ~game_over
        /\ VecAdd(snake[1], direction') = snake[Len(snake)]
        /\ VecAdd(snake[1], direction') # food)
       => (/\ ~game_over'
           /\ snake' = <<VecAdd(snake[1], direction')>> \o AllButLast(snake))]_vars

\* C6: a direction key opposite to the heading d is rejected (pending_dir
\* keeps its value); when every key of the frame was opposite to d the
\* heading after the tick is d and the head has moved by d; the heading
\* after a tick is never the opposite of the heading before it.
C6_ReversalRejected ==
    [][/\ (/\ last' = "key"
           /\ Len(keys') = Len(keys) + 1
           /\ keys'[Len(keys')] = Opp(direction))
          => pending_dir' = pending_dir
       /\ (/\ last' \in TickLabels
           /\ ~game_over
           /\ keys # <<>>
           /\ \A i \in 1..Len(keys) : keys[i] = Opp(direction))
          => (/\ direction' = direction
              /\ snake'[1] = VecAdd(snake[1], direction))
       /\ (last' \in TickLabels /\ ~game_over)
          => direction' # Opp(direction)]_vars

C6_Witness ==
    /\ ~game_over
    /\ last = "key"
    /\ keys # <<>>
    /\ \A i \in 1..Len(keys) : keys[i] = Opp(direction)
    /\ direction = DIR_UP
    /\ pending_dir = None

\* C7 as stated: the heading after a tick is the last key of the frame if
\* that key is not opposite to the heading, and is unchanged otherwise.
C7_LastKeyWins ==
    [][(last' \in TickLabels /\ ~game_over /\ keys # <<>>)
       => direction' = IF keys[Len(keys)] # Opp(direction)
                       THEN keys[Len(keys)]
                       ELSE direction]_vars

\* C7 amended: the heading after a tick is the most recent key of the frame
\* that is not opposite to the heading (keys opposite to it are ignored, so
\* an earlier key is applied when every later one is opposite), and is
\* unchanged when there is no such key.
C7_LastAcceptedKeyWins ==
    [][(last' \in TickLabels /\ ~game_over)
       => direction' = LastAccepted(keys, direction)]_vars

C7_Witness ==
    /\ ~game_over
    /\ last = "key"
    /\ Len(keys) = 2
    /\ keys[2] = Opp(direction)
    /\ keys[1] \notin {direction, Opp(direction)}
    /\ pending_dir = keys[1]

\* C8: score is 0 after reset, grows by exactly 1 on a tick whose new head
\* is on food and on no other step, never decreases within a run and equals
\* the number of food-eating ticks since the last reset.
C8_ScoreCountsFood ==
    /\ [](score = eaten)
    /\ [][/\ last' = "reset" => score' = 0
          /\ last' # "reset" => score' >= score
          /\ (last' \in TickLabels /\ ~game_over
              /\ VecAdd(snake[1], direction') = food)
             => score' = score + 1
          /\ (last' # "reset" /\ score' # score)
             => (/\ last' \in TickLabels
                 /\ ~game_over
                 /\ VecAdd(snake[1], direction') = food
                 /\ score' = score + 1)]_vars

C8_Witness == last = "eat" /\ score = 2 /\ eaten = 2

\* C9: a tick whose new head is in bounds, not on the body and on food, with
\* a free cell left, makes the body [newHead] + old body, adds 1 to score,
\* puts food on a cell not in the new body and keeps game_over false.
C9_Growth ==
    [][(/\ last' \in TickLabels
        /\ ~game_over
        /\ VecAdd(snake[1], direction') \in Grid
        /\ VecAdd(snake[1], direction') \notin Range(snake)
        /\ VecAdd(snake[1], direction') = food
        /\ Range(snake) \cup {food} # Grid)
       => (/\ snake' = <<VecAdd(snake[1], direction')>> \o snake
           /\ Len(snake') = Len(snake) + 1
           /\ score' = score + 1
           /\ food' \in Grid
           /\ food' \notin Range(snake')
           /\ ~game_over')]_vars

C9_Witness ==
    /\ last = "eat"
    /\ ~game_over
    /\ Len(snake) = 4
    /\ score = 1
    /\ food \notin Range(snake)

\* C10: a tick whose new head is in bounds, on no body cell and not on food
\* makes the body [newHead] + old body without its last element and leaves
\* food, score and game_over (false) unchanged.
C10_NonGrowth ==
    [][(/\ last' \in TickLabels
        /\ ~game_over
        /\ VecAdd(snake[1], direction') \in Grid
        /\ VecAdd(snake[1], direction') \notin Range(snake)
        /\ VecAdd(snake[1], direction') # food)
       => (/\ snake' = <<VecAdd(snake[1], direction')>> \o AllButLast(snake)
           /\ Len(snake') = Len(snake)
           /\ food' = food
           /\ score' = score
           /\ ~game_over')]_vars

C10_Witness ==
    /\ last = "move"
    /\ ~game_over
    /\ Len(snake) = 3
    /\ snake[1] # reset_snake[1]

\* C11: an eating tick after which the body covers every cell of the grid
\* sets game_over (win-by-fill), adds 1 to score, keeps the new head without
\* removing the tail and leaves food at its previous value.
C11_WinByFill ==
    [][(/\ last' \in TickLabels
        /\ ~game_over
        /\ VecAdd(snake[1], direction') = food
        /\ Range(snake) \cup {food} = Grid)
       => (/\ game_over'
           /\ score' = score + 1
           /\ snake' = <<VecAdd(snake[1], direction')>> \o snake
           /\ Len(snake') = GRID_W * GRID_H
           /\ food' = food)]_vars

C11_Witness ==
    /\ last = "win"
    /\ game_over
    /\ Len(snake) = GRID_W * GRID_H
    /\ score = GRID_W * GRID_H - 3

\* C13: the reset produces body = [c, c+LEFT, c+2*LEFT] with
\* c = (W div 2, H div 2), heading RIGHT, score 0, game_over false, food on
\* a cell not in the body and no pending direction.
C13_ResetState ==
    [][(last' = "reset" /\ pc' = "loop")
       => (/\ snake' = <<<<GRID_W \div 2, GRID_H \div 2>>,
                         <<(GRID_W \div 2) - 1, GRID_H \div 2>>,
                         <<(GRID_W \div 2) - 2, GRID_H \div 2>>>>
           /\ direction' = <<1, 0>>
           /\ score' = 0
           /\ ~game_over'
           /\ food' \in Grid
           /\ food' \notin Range(snake')
           /\ pending_dir' = None)]_vars

C13_Witness ==
    /\ last = "reset"
    /\ pc = "loop"
    /\ Len(snake) = 3
    /\ snake[1] = <<GRID_W \div 2, GRID_H \div 2>>
    /\ score = 0
    /\ ~game_over
    /\ direction = <<1, 0>>

\* C17: while game_over is false the body length is score + 3.
C17_LengthIsScorePlus3 == ~game_over => Len(snake) = score + 3

C17_Witness ==
    /\ ~game_over
    /\ last = "move"
    /\ score >= 2
    /\ Len(snake) = score + 3

\* C18: in every reachable state consecutive body segments differ by one
\* unit direction vector, and each running tick moves the head by exactly
\* one cell.
C18_ConnectedPath ==
    /\ [](\A i \in 1..(Len(snake) - 1) :
            <<snake[i][1] - snake[i + 1][1],
              snake[i][2] - snake[i + 1][2]>> \in Dirs)
    /\ [][(last' \in TickLabels /\ ~game_over)
          => <<snake'[1][1] - snake[1][1],
               snake'[1][2] - snake[1][2]>> \in Dirs]_vars

C18_Witness ==
    /\ last = "wall"
    /\ game_over
    /\ Len(snake) >= 6
    /\ \E i \in 1..(Len(snake) - 1) : snake[i][2] # snake[i + 1][2]

\* C19: while game_over is false every body cell lies inside
\* [0,W) x [0,H), and in every reachable state food lies inside the grid.
C19_InsideGrid ==
    /\ ~game_over =>
         \A i \in 1..Len(snake) :
            /\ 0 <= snake[i][1] /\ snake[i][1] < GRID_W
            /\ 0 <= snake[i][2] /\ snake[i][2] < GRID_H
    /\ 0 <= food[1] /\ food[1] < GRID_W
    /\ 0 <= food[2] /\ food[2] < GRID_H

C19_Witness ==
    /\ ~game_over
    /\ last = "move"
    /\ snake[1] = <<0, 0>>
    /\ snake[Len(snake)][1] = GRID_W - 1

\* The larger of the two grid dimensions.
MaxDim == IF GRID_W >= GRID_H THEN GRID_W ELSE GRID_H

\* C20 as stated: from any running state, with no direction key pressed
\* from then on, the heading never changes (so no tick of a running game
\* changes it) and game_over is true after at most max(W, H) ticks.
C20_StraightRunEnds ==
    /\ [](~game_over => straight < MaxDim)
    /\ [][(last' \in TickLabels /\ ~game_over)
          => direction' = direction]_vars

\* C20 amended: with no direction key pressed from a running state on, the
\* heading changes at most at the first tick, to the direction left pending
\* by a key accepted earlier in the frame, and at no later tick; game_over
\* is true after at most max(W, H) ticks.
C20_StraightRunEndsAfterPending ==
    /\ [](~game_over => straight < MaxDim)
    /\ [](straight >= 1 => pending_dir = None)
    /\ [][(last' \in TickLabels /\ ~game_over)
          => direction' = IF pending_dir # None THEN pending_dir
                          ELSE direction]_vars

C20_Witness ==
    /\ game_over
    /\ last = "wall"
    /\ straight = MaxDim
    /\ direction = <<1, 0>>
    /\ pending_dir = None

\* C12: the no-free-cell error never leaves a game-state operation; raised
\* in reset_game on a grid with W >= 3 and H >= 1 it is caught there, so
\* main never ends with it.
C12_ErrorNeverPropagates ==
    (cfg[1] >= 3 /\ cfg[2] >= 1) => pc # "error"

\* C14 as stated: on every grid with W >= 3 and H >= 1 the three cells of
\* the body built by reset lie inside [0,W) x [0,H).
C14_BodyFitsFromW3 ==
    (cfg[1] >= 3 /\ cfg[2] >= 1 /\ rpc # "reset")
    => \A i \in 1..Len(snake) :
          /\ 0 <= snake[i][1] /\ snake[i][1] < cfg[1]
          /\ 0 <= snake[i][2] /\ snake[i][2] < cfg[2]

\* C14 amended: on every grid with W >= 4 and H >= 1 the three cells of the
\* body built by reset lie inside [0,W) x [0,H).
C14_BodyFitsFromW4 ==
    (cfg[1] >= 4 /\ cfg[2] >= 1 /\ rpc # "reset")
    => /\ Len(snake) = 3
       /\ \A i \in 1..Len(snake) :
             /\ 0 <= snake[i][1] /\ snake[i][1] < cfg[1]
             /\ 0 <= snake[i][2] /\ snake[i][2] < cfg[2]

C14_Witness ==
    /\ cfg = <<4, 1>>
    /\ pc = "loop"
    /\ Len(snake) = 3
    /\ snake[3] = <<0, 0>>

\* C15: on a grid with W < 3 or H < 1 reset fails instead of returning a
\* game state: main never gets a running state on such a grid.
C15_SmallGridRejected ==
    (cfg[1] < 3 \/ cfg[2] < 1) => pc # "loop"

\* C16: random_free_cell(occupied) raises exactly when |occupied| >= W*H;
\* otherwise, under fair sampling, its loop ends and the cell returned is
\* inside the grid and not in occupied.
C16_RandomFreeCell ==
    /\ [](rpc = "raised" => Cardinality(occ) >= cfg[1] * cfg[2])
    /\ [](rpc \in {"loop", "returned"} => Cardinality(occ) < cfg[1] * cfg[2])
    /\ [](rpc = "returned" =>
            /\ 0 <= cell[1] /\ cell[1] < cfg[1]
            /\ 0 <= cell[2] /\ cell[2] < cfg[2]
            /\ cell \notin occ)
    /\ (rpc = "call" /\ Cardinality(occ) >= cfg[1] * cfg[2])
          ~> (rpc = "raised")
    /\ (rpc = "call" /\ Cardinality(occ) < cfg[1] * cfg[2])
          ~> (rpc = "returned")

C16_Witness ==
    /\ pc = "cell"
    /\ rpc = "returned"
    /\ cfg = <<MaxCellW, MaxCellH>>
    /\ Cardinality(occ) = MaxCellW * MaxCellH - 1
    /\ cell \notin occ
    /\ \E c \in occ : c \in GridOn(cfg[1], cfg[2])

====
